---- MODULE Spec2Model ----
(***************************************************************************)
(* Model of tools/anvil_set_erc20_balance.py: the probe loop that finds    *)
(* the balances mapping slot of an ERC20 token on an anvil fork by writing *)
(* the desired balance word to keccak256(pad32(account) ++ pad32(i)) for   *)
(* i = 0..max_slot, checking balanceOf, and restoring on mismatch.         *)
(*                                                                         *)
(* Representation.  A byte string is a record [len, val]: its length in    *)
(* bytes and a symbolic content.  A hex string given on the command line   *)
(* is a record [digits, val]: the number of hex digits after the optional  *)
(* 0x, and the same symbolic content.  keccak256 is kept symbolic and      *)
(* injective (the hash is an external collaborator).  A storage word is a  *)
(* big-endian sequence of WordBits bits; WordBits stands for the 256 bits  *)
(* of to_bytes(32), scaled down so that amounts that do not fit occur.     *)
(* The node is an EVM storage (unset keys read as the zero word) whose     *)
(* balanceOf(account) returns the word at key(account, true_slot).         *)
(***************************************************************************)
EXTENDS Integers, Sequences, FiniteSets, TLC

\* Largest value of --max-slot explored.
MaxSlotBound == 2

\* Width of a storage word in bits (stands for 8 * 32).
WordBits == 1

\* len(b) != 20 in addr_to_bytes32.
AddressBytes == 20

\* b.rjust(32, ...) in zpad32 and i.to_bytes(32, ...) in int_to_bytes32.
WordBytes == 32

VARIABLES
    account,      \* args.account: [digits, val]
    amount,       \* args.amount
    max_slot,     \* args.max_slot
    true_slot,    \* node: the index of the token's balances mapping
    storage,      \* node: the token's storage, storage key -> word
    storage0,     \* the token's storage before the run
    pc,           \* position of main()
    i,            \* loop variable of the probe loop
    call_data,    \* main: call_data
    before,       \* main: before
    desired_word, \* main: desired_word
    storage_key,  \* main: storage_key
    old_word,     \* main: old_word
    after,        \* main: after
    calls,        \* every RPC request issued so far, in order
    found_slot,   \* the index printed by "OK: found balances mapping slot index"
    raised,       \* the exception that left main() uncaught, or "none"
    exit_status   \* the status of the process, -1 while it runs

vars == <<account, amount, max_slot, true_slot, storage, storage0, pc, i,
          call_data, before, desired_word, storage_key, old_word, after,
          calls, found_slot, raised, exit_status>>

-----------------------------------------------------------------------------
\* Pure helpers

RECURSIVE Pow2(_)
Pow2(n) == IF n = 0 THEN 1 ELSE 2 * Pow2(n - 1)

\* The largest integer v.to_bytes(32, "big") accepts.
MaxWord == Pow2(WordBits) - 1

ZeroWord == [k \in 1..WordBits |-> 0]

\* v.to_bytes(32, byteorder="big").hex(): big-endian digits of v.
to_bytes_hex(v) == [k \in 1..WordBits |-> (v \div Pow2(WordBits - k)) % 2]

RECURSIVE int16(_)
\* int(h, 16): the value of the big-endian digits of a word.
int16(h) ==
    IF Len(h) = 0 THEN 0 ELSE 2 * int16(SubSeq(h, 1, Len(h) - 1)) + h[Len(h)]

keccak256(b) == [len |-> WordBytes, val |-> <<"keccak256", b.val>>]

zpad32(b) == [b EXCEPT !.len = IF b.len < WordBytes THEN WordBytes ELSE b.len]

\* An odd number of digits gets a leading "0"; two digits make a byte.
hex_to_bytes(h) == [len |-> (h.digits + (h.digits % 2)) \div 2, val |-> h.val]

bytes_to_hex(b) == [digits |-> 2 * b.len, val |-> b.val]

\* addr_to_bytes32 raises ValueError unless the address has 20 bytes.
addr_to_bytes32_raises(addr) == hex_to_bytes(addr).len # AddressBytes

addr_to_bytes32(addr) == zpad32(hex_to_bytes(addr))

int_to_bytes32_raises(n) == n < 0

int_to_bytes32(n) == [len |-> WordBytes, val |-> n]

\* int_to_storage_word: ValueError below 0, OverflowError from to_bytes
\* when the value needs more than 32 bytes, "none" otherwise.
int_to_storage_word_raises(v) ==
    IF v < 0 THEN "ValueError"
    ELSE IF v > MaxWord THEN "OverflowError"
    ELSE "none"

int_to_storage_word(v) == to_bytes_hex(v)

concat(a, b) == [len |-> a.len + b.len, val |-> <<a.val, b.val>>]

\* sel = keccak256(b"balanceOf(address)")[:4]; data = sel + addr_to_bytes32(account).
encode_balance_of(acct) ==
    bytes_to_hex(concat([len |-> 4, val |-> <<"keccak256", "balanceOf(address)">>],
                        addr_to_bytes32(acct)))

\* storage_key = bytes_to_hex(keccak256(addr_to_bytes32(account) + int_to_bytes32(i)))
StorageKey(acct, n) ==
    bytes_to_hex(keccak256(concat(addr_to_bytes32(acct), int_to_bytes32(n))))

-----------------------------------------------------------------------------
\* The node

\* eth_getStorageAt: an unset key reads as the zero word.
NodeGetStorageAt(st, k) == IF k \in DOMAIN st THEN st[k] ELSE ZeroWord

\* anvil_setStorageAt
NodeSetStorageAt(st, k, w) ==
    [x \in (DOMAIN st) \cup {k} |-> IF x = k THEN w ELSE st[x]]

\* eth_call balanceOf(account): the word at the account's entry of the balances mapping.
NodeBalanceOf(st) == NodeGetStorageAt(st, StorageKey(account, true_slot))

\* How one rpc() can end: "ok"; "error": the response carries an error
\* object; "transport": urlopen fails before the node acts; "timeout": the
\* node acts but the response is lost; "unparsable": a result that int(.,16)
\* rejects.
ReadOutcomes == {"ok", "error", "transport"}
CallOutcomes == {"ok", "error", "transport", "unparsable"}
WriteOutcomes == {"ok", "error", "transport", "timeout"}

NoWord == <<>>

\* A hex string local of main() that is not assigned yet.
Unset == [digits |-> 0, val |-> <<>>]

\* One entry of calls: the method, its key or call data, the word written
\* (or returned by eth_getStorageAt), how the call ended, and the integer an
\* eth_call returned (-1 otherwise).
Request(method, arg, word, outcome, result) ==
    [method |-> method, arg |-> arg, word |-> word, outcome |-> outcome,
     result |-> result]

-----------------------------------------------------------------------------
\* Inputs

Accounts == {[digits |-> d, val |-> "A"] : d \in {38, 40, 41}}

Amounts == -1 .. (MaxWord + 1)

MaxSlots == -1 .. MaxSlotBound

\* The token's balances slot; MaxSlotBound + 1 is a slot no run reaches,
\* its entry for the account unset (a zero balance).
TrueSlots == 0 .. (MaxSlotBound + 1)

CandidateKeys(acct) == {StorageKey(acct, n) : n \in 0..MaxSlotBound}

\* The words a candidate key holds before the run: empty, one, all ones.
InitWords == {to_bytes_hex(0), to_bytes_hex(1), to_bytes_hex(MaxWord)}

Init ==
    /\ account \in Accounts
    /\ amount \in Amounts
    /\ max_slot \in MaxSlots
    /\ true_slot \in TrueSlots
    /\ storage \in [CandidateKeys(account) -> InitWords]
    /\ storage0 = storage
    /\ pc = "encode_call"
    /\ i = 0
    /\ call_data = Unset
    /\ before = -1
    /\ desired_word = NoWord
    /\ storage_key = Unset
    /\ old_word = NoWord
    /\ after = -1
    /\ calls = <<>>
    /\ found_slot = -1
    /\ raised = "none"
    /\ exit_status = -1

-----------------------------------------------------------------------------
\* main()

\* return n from main(): raise SystemExit(n).
Return(n) ==
    /\ pc' = "done"
    /\ exit_status' = n

\* An exception leaves main(): the interpreter prints the traceback and
\* the process ends with status 1.
Uncaught(exc) ==
    /\ pc' = "done"
    /\ raised' = exc
    /\ exit_status' = 1

\* call_data = encode_balance_of(account)
EncodeCall ==
    /\ pc = "encode_call"
    /\ IF addr_to_bytes32_raises(account)
       THEN /\ Uncaught("ValueError")
            /\ UNCHANGED call_data
       ELSE /\ call_data' = encode_balance_of(account)
            /\ pc' = "initial_call"
            /\ UNCHANGED <<raised, exit_status>>
    /\ UNCHANGED <<account, amount, max_slot, true_slot, storage, storage0, i,
                   before, desired_word, storage_key, old_word,
                   after, calls, found_slot>>

\* Variant: the failure of the initial balanceOf read is swallowed
\* (except: pass) and the run goes on.
InitialCall_IgnoresFailure ==
    /\ pc = "initial_call"
    /\ \E out \in CallOutcomes :
        /\ calls' = Append(calls,
               Request("eth_call", call_data, NoWord, out,
                       IF out = "ok" THEN int16(NodeBalanceOf(storage)) ELSE -1))
        /\ before' = IF out = "ok" THEN int16(NodeBalanceOf(storage)) ELSE before
        /\ pc' = "encode_amount"
    /\ UNCHANGED <<account, amount, max_slot, true_slot, storage, storage0, i,
                   call_data, desired_word, storage_key, old_word, after,
                   found_slot, raised, exit_status>>

\* before_hex = rpc(eth_call); before = int(before_hex, 16); except: return 2
InitialCall ==
    /\ pc = "initial_call"
    /\ \E out \in CallOutcomes :
        /\ calls' = Append(calls,
               Request("eth_call", call_data, NoWord, out,
                       IF out = "ok" THEN int16(NodeBalanceOf(storage)) ELSE -1))
        /\ IF out = "ok"
           THEN /\ before' = int16(NodeBalanceOf(storage))
                /\ pc' = "encode_amount"
                /\ UNCHANGED exit_status
           ELSE /\ Return(2)
                /\ UNCHANGED before
    /\ UNCHANGED <<account, amount, max_slot, true_slot, storage, storage0, i,
                   call_data, desired_word, storage_key, old_word, after,
                   found_slot, raised>>

\* desired_word = int_to_storage_word(amount)
EncodeAmount ==
    /\ pc = "encode_amount"
    /\ IF int_to_storage_word_raises(amount) # "none"
       THEN /\ Uncaught(int_to_storage_word_raises(amount))
            /\ UNCHANGED desired_word
       ELSE /\ desired_word' = int_to_storage_word(amount)
            /\ pc' = "loop"
            /\ UNCHANGED <<raised, exit_status>>
    /\ UNCHANGED <<account, amount, max_slot, true_slot, storage, storage0, i,
                   call_data, before, storage_key, old_word, after, calls,
                   found_slot>>

\* Variant: range(args.max_slot + 2), one index too many.
LoopHead_OffByOne ==
    /\ pc = "loop"
    /\ IF i > max_slot + 1
       THEN /\ Return(1)
            /\ UNCHANGED storage_key
       ELSE /\ storage_key' = StorageKey(account, i)
            /\ pc' = "get"
            /\ UNCHANGED exit_status
    /\ UNCHANGED <<account, amount, max_slot, true_slot, storage, storage0, i,
                   call_data, before, desired_word, old_word, after, calls,
                   found_slot, raised>>

\* for i in range(args.max_slot + 1): storage_key = ...; after the loop: return 1
LoopHead ==
    /\ pc = "loop"
    /\ IF i > max_slot
       THEN /\ Return(1)
            /\ UNCHANGED storage_key
       ELSE /\ storage_key' = StorageKey(account, i)
            /\ pc' = "get"
            /\ UNCHANGED exit_status
    /\ UNCHANGED <<account, amount, max_slot, true_slot, storage, storage0, i,
                   call_data, before, desired_word, old_word, after, calls,
                   found_slot, raised>>

\* Variant: the word returned by eth_getStorageAt is dropped and the slot
\* is taken to have been empty.
GetStorage_AssumesZero ==
    /\ pc = "get"
    /\ \E out \in ReadOutcomes :
        /\ calls' = Append(calls,
               Request("eth_getStorageAt", storage_key,
                       IF out = "ok" THEN NodeGetStorageAt(storage, storage_key)
                       ELSE NoWord,
                       out, -1))
        /\ IF out = "ok"
           THEN /\ old_word' = ZeroWord
                /\ pc' = "set"
                /\ UNCHANGED exit_status
           ELSE /\ Return(2)
                /\ UNCHANGED old_word
    /\ UNCHANGED <<account, amount, max_slot, true_slot, storage, storage0, i,
                   call_data, before, desired_word, storage_key, after,
                   found_slot, raised>>

\* old_word = rpc(eth_getStorageAt, [token, storage_key, "latest"])
GetStorage ==
    /\ pc = "get"
    /\ \E out \in ReadOutcomes :
        /\ calls' = Append(calls,
               Request("eth_getStorageAt", storage_key,
                       IF out = "ok" THEN NodeGetStorageAt(storage, storage_key)
                       ELSE NoWord,
                       out, -1))
        /\ IF out = "ok"
           THEN /\ old_word' = NodeGetStorageAt(storage, storage_key)
                /\ pc' = "set"
                /\ UNCHANGED exit_status
           ELSE /\ Return(2)
                /\ UNCHANGED old_word
    /\ UNCHANGED <<account, amount, max_slot, true_slot, storage, storage0, i,
                   call_data, before, desired_word, storage_key, after,
                   found_slot, raised>>

\* rpc(anvil_setStorageAt, [token, storage_key, desired_word])
SetStorage ==
    /\ pc = "set"
    /\ \E out \in WriteOutcomes :
        /\ calls' = Append(calls,
               Request("anvil_setStorageAt", storage_key, desired_word, out, -1))
        /\ storage' = IF out \in {"ok", "timeout"}
                      THEN NodeSetStorageAt(storage, storage_key, desired_word)
                      ELSE storage
        /\ IF out = "ok"
           THEN /\ pc' = "verify"
                /\ UNCHANGED exit_status
           ELSE Return(2)
    /\ UNCHANGED <<account, amount, max_slot, true_slot, storage0, i,
                   call_data, before, desired_word, storage_key, old_word,
                   after, found_slot, raised>>

\* Variant: a failed verification read falls through to the restore
\* instead of returning 2.
Verify_RestoresOnFailure ==
    /\ pc = "verify"
    /\ \E out \in CallOutcomes :
        /\ calls' = Append(calls,
               Request("eth_call", call_data, NoWord, out,
                       IF out = "ok" THEN int16(NodeBalanceOf(storage)) ELSE -1))
        /\ IF out = "ok"
           THEN /\ after' = int16(NodeBalanceOf(storage))
                /\ pc' = "compare"
           ELSE /\ pc' = "restore"
                /\ UNCHANGED after
    /\ UNCHANGED <<account, amount, max_slot, true_slot, storage, storage0, i,
                   call_data, before, desired_word, storage_key, old_word,
                   found_slot, raised, exit_status>>

\* after_hex = rpc(eth_call); after = int(after_hex, 16); except: return 2
Verify ==
    /\ pc = "verify"
    /\ \E out \in CallOutcomes :
        /\ calls' = Append(calls,
               Request("eth_call", call_data, NoWord, out,
                       IF out = "ok" THEN int16(NodeBalanceOf(storage)) ELSE -1))
        /\ IF out = "ok"
           THEN /\ after' = int16(NodeBalanceOf(storage))
                /\ pc' = "compare"
                /\ UNCHANGED exit_status
           ELSE /\ Return(2)
                /\ UNCHANGED after
    /\ UNCHANGED <<account, amount, max_slot, true_slot, storage, storage0, i,
                   call_data, before, desired_word, storage_key, old_word,
                   found_slot, raised>>

\* Variant: if after >= amount.
Compare_GreaterEqual ==
    /\ pc = "compare"
    /\ IF after >= amount
       THEN /\ found_slot' = i
            /\ Return(0)
       ELSE /\ pc' = "restore"
            /\ UNCHANGED <<found_slot, exit_status>>
    /\ UNCHANGED <<account, amount, max_slot, true_slot, storage, storage0, i,
                   call_data, before, desired_word, storage_key, old_word,
                   after, calls, raised>>

\* if after == amount: print(...); return 0
Compare ==
    /\ pc = "compare"
    /\ IF after = amount
       THEN /\ found_slot' = i
            /\ Return(0)
       ELSE /\ pc' = "restore"
            /\ UNCHANGED <<found_slot, exit_status>>
    /\ UNCHANGED <<account, amount, max_slot, true_slot, storage, storage0, i,
                   call_data, before, desired_word, storage_key, old_word,
                   after, calls, raised>>

\* Variant: the restore is left out; the loop goes on to the next index.
Restore_NoWrite ==
    /\ pc = "restore"
    /\ i' = i + 1
    /\ pc' = "loop"
    /\ UNCHANGED <<account, amount, max_slot, true_slot, storage, storage0,
                   call_data, before, desired_word, storage_key, old_word,
                   after, calls, found_slot, raised, exit_status>>

\* Variant: the restore writes the balance read before the run, not the
\* word read from the slot.
Restore_WritesBefore ==
    /\ pc = "restore"
    /\ \E out \in WriteOutcomes :
        /\ calls' = Append(calls,
               Request("anvil_setStorageAt", storage_key,
                       int_to_storage_word(before), out, -1))
        /\ storage' = IF out \in {"ok", "timeout"}
                      THEN NodeSetStorageAt(storage, storage_key,
                                            int_to_storage_word(before))
                      ELSE storage
        /\ IF out = "ok"
           THEN /\ i' = i + 1
                /\ pc' = "loop"
                /\ UNCHANGED exit_status
           ELSE /\ Return(2)
                /\ UNCHANGED i
    /\ UNCHANGED <<account, amount, max_slot, true_slot, storage0,
                   call_data, before, desired_word, storage_key, old_word,
                   after, found_slot, raised>>

\* rpc(anvil_setStorageAt, [token, storage_key, old_word]); except: return 2
Restore ==
    /\ pc = "restore"
    /\ \E out \in WriteOutcomes :
        /\ calls' = Append(calls,
               Request("anvil_setStorageAt", storage_key, old_word, out, -1))
        /\ storage' = IF out \in {"ok", "timeout"}
                      THEN NodeSetStorageAt(storage, storage_key, old_word)
                      ELSE storage
        /\ IF out = "ok"
           THEN /\ i' = i + 1
                /\ pc' = "loop"
                /\ UNCHANGED exit_status
           ELSE /\ Return(2)
                /\ UNCHANGED i
    /\ UNCHANGED <<account, amount, max_slot, true_slot, storage0,
                   call_data, before, desired_word, storage_key, old_word,
                   after, found_slot, raised>>

Next ==
    \/ EncodeCall
    \/ InitialCall
    \/ EncodeAmount
    \/ LoopHead
    \/ GetStorage
    \/ SetStorage
    \/ Verify
    \/ Compare
    \/ Restore

Spec == Init /\ [][Next]_vars

\* main() is the only control flow and every rpc() returns or raises within
\* its timeout, so a step that can be taken is taken.
FairSpec == Spec /\ WF_vars(Next)

-----------------------------------------------------------------------------
\* Properties

Done == pc = "done"

AllCallsOk == \A p \in 1..Len(calls) : calls[p].outcome = "ok"

\* The storage keys whose word differs from the word before the run.
Modified ==
    {k \in (DOMAIN storage) \cup (DOMAIN storage0) :
        NodeGetStorageAt(storage, k) # NodeGetStorageAt(storage0, k)}

\* The candidate index and the step within it of the p-th request, p >= 2.
IndexOf(p) == (p - 2) \div 4
PhaseOf(p) == (p - 2) % 4

\* No verification read of the run returned the amount.
NoIndexMatched ==
    \A p \in 2..Len(calls) :
        (calls[p].method = "eth_call" /\ calls[p].outcome = "ok")
            => calls[p].result # amount

ValidInputs ==
    /\ ~addr_to_bytes32_raises(account)
    /\ 0 <= amount /\ amount <= MaxWord
    /\ max_slot >= 0

\* C1: with a 20-byte account, an amount that fits a storage word, the true
\* balances slot within 0..max_slot and every RPC call succeeding, the run
\* ends with status 0, reports the true slot, and leaves the amount at
\* key(account, true_slot).
C1_FindsTrueSlot ==
    (/\ Done
     /\ AllCallsOk
     /\ ~addr_to_bytes32_raises(account)
     /\ 0 <= amount /\ amount <= MaxWord
     /\ true_slot <= max_slot)
    => /\ exit_status = 0
       /\ found_slot = true_slot
       /\ NodeGetStorageAt(storage, StorageKey(account, true_slot))
              = int_to_storage_word(amount)

\* C2: when every RPC call succeeded and no index produced a post-write
\* balance equal to the amount, the run ends with status 1 and every
\* storage key holds the word it held before the run.
C2_ExhaustedRestoresAll ==
    (Done /\ AllCallsOk /\ NoIndexMatched)
    => (exit_status = 1 /\ Modified = {})

C2_Witness ==
    /\ Done /\ AllCallsOk /\ NoIndexMatched
    /\ raised = "none"
    /\ max_slot >= 1
    /\ Len(calls) = 1 + 4 * (max_slot + 1)
    /\ \E n \in 0..max_slot :
          NodeGetStorageAt(storage0, StorageKey(account, n)) # desired_word

\* C3: when the initial balanceOf read fails, the run ends with status 2,
\* that read is the only RPC call ever issued, and storage is untouched.
C3_InitialReadFailureIsFatal ==
    (Len(calls) >= 1 /\ calls[1].outcome # "ok")
    => /\ Done
       /\ exit_status = 2
       /\ Len(calls) = 1
       /\ calls[1].method = "eth_call"
       /\ Modified = {}

C3_Witness ==
    /\ Done
    /\ Len(calls) = 1
    /\ calls[1].outcome = "unparsable"
    /\ exit_status = 2

\* C4: a run given a negative amount issues no RPC request at all.
C4_NegativeAmountBeforeNetwork == amount < 0 => calls = <<>>

\* C5: a run that ends in an encoding error (ValueError from
\* addr_to_bytes32 or int_to_storage_word) ends with status 2.
C5_EncodingErrorStatus2 == (Done /\ raised = "ValueError") => exit_status = 2

\* C6: a failing RPC call inside the probe loop is the last call of the
\* run, which ends at once with status 2 at the index of that call.
C6_ProbeFailureIsFatal ==
    \A p \in 2..Len(calls) :
        calls[p].outcome # "ok"
        => /\ p = Len(calls)
           /\ Done
           /\ exit_status = 2
           /\ i = IndexOf(p)

C6_Witness ==
    /\ Done
    /\ Len(calls) = 8
    /\ calls[8].method = "eth_call"
    /\ calls[8].outcome = "error"
    /\ Modified # {}

\* C7: when the run ends with status 0 reporting index s, every
\* key(account, n) with n < s holds the word it held before the run.
C7_EarlierSlotsRestored ==
    (Done /\ exit_status = 0)
    => /\ found_slot = i
       /\ \A n \in 0..(found_slot - 1) :
             NodeGetStorageAt(storage, StorageKey(account, n))
                 = NodeGetStorageAt(storage0, StorageKey(account, n))

C7_Witness ==
    /\ Done /\ exit_status = 0
    /\ found_slot >= 2
    /\ \A n \in 0..(found_slot - 1) :
          NodeGetStorageAt(storage0, StorageKey(account, n)) # desired_word

\* C8: the first request is the balance read; after it the requests come
\* in groups of four per candidate index, indices ascending from 0: read
\* of key(account, n), write of the desired word to it, verification
\* eth_call, restore of the word read; the restore is issued exactly when
\* the verified balance differs from the amount, and no key of an index
\* above the current one is touched.
C8_CallOrder ==
    \A p \in 1..Len(calls) :
        LET e == calls[p] IN
        IF p = 1 THEN e.method = "eth_call" /\ e.arg = call_data
        ELSE
            LET n == IndexOf(p)
                ph == PhaseOf(p)
            IN  /\ n <= max_slot
                /\ n <= i
                /\ ph = 0 => /\ e.method = "eth_getStorageAt"
                             /\ e.arg = StorageKey(account, n)
                /\ ph = 1 => /\ e.method = "anvil_setStorageAt"
                             /\ e.arg = StorageKey(account, n)
                             /\ e.word = desired_word
                /\ ph = 2 => /\ e.method = "eth_call"
                             /\ e.arg = call_data
                             /\ (e.outcome = "ok" /\ e.result = amount)
                                   => p = Len(calls)
                             /\ (e.outcome = "ok" /\ e.result # amount)
                                   => (p < Len(calls) \/ pc \in {"compare", "restore"})
                /\ ph = 3 => /\ e.method = "anvil_setStorageAt"
                             /\ e.arg = StorageKey(account, n)
                             /\ e.word = calls[p - 3].word
                             /\ calls[p - 1].result # amount

C8_Witness ==
    /\ Done /\ exit_status = 0
    /\ found_slot = 2
    /\ Len(calls) = 12

\* C9: in every state at most one storage key differs from its word
\* before the run, and it is key(account, i) of the index being probed.
C9_AtMostCurrentKeyModified == Modified \subseteq {StorageKey(account, i)}

C9_Witness ==
    /\ Done /\ exit_status = 2
    /\ i >= 1
    /\ Modified = {StorageKey(account, i)}
    /\ PhaseOf(Len(calls)) = 3

\* C10: with valid inputs the run issues at most 1 + 4 * (max_slot + 1)
\* requests, ends with a status among 0, 1, 2 that never changes again,
\* reaches status 1 only after all max_slot + 1 indices were probed and
\* restored, and does end.
C10_Terminates ==
    /\ [](ValidInputs =>
            /\ Len(calls) <= 1 + 4 * (max_slot + 1)
            /\ Done <=> exit_status \in {0, 1, 2}
            /\ ~Done => exit_status = -1
            /\ exit_status = 1 =>
                  /\ i = max_slot + 1
                  /\ Len(calls) = 1 + 4 * (max_slot + 1)
                  /\ AllCallsOk
                  /\ Modified = {})
    /\ [][Done => (Done' /\ exit_status' = exit_status)]_vars
    /\ (ValidInputs ~> Done)

C10_Witness ==
    /\ Done /\ ValidInputs
    /\ exit_status = 1
    /\ max_slot = MaxSlotBound
    /\ Len(calls) = 1 + 4 * (max_slot + 1)
    /\ \E n \in 0..max_slot :
          NodeGetStorageAt(storage0, StorageKey(account, n)) # desired_word

====
